---- MODULE Spec2Model ----
(***************************************************************************)
(* A model of refactordoc's BaseDoc (src/base_doc.py): the in-place line   *)
(* buffer, its cursor, section detection, the rubric rewrite and block     *)
(* extraction.                                                             *)
(*                                                                         *)
(* A line is a sequence of one-character strings; the buffer `docstring`   *)
(* is a sequence of lines.  `index` is zero-based as in the code, so the   *)
(* line at the cursor is docstring[index + 1].                             *)
(***************************************************************************)
EXTENDS Integers, Sequences, FiniteSets, TLC

VARIABLES
    docstring,     \* BaseDoc._docstring: the mutable list of lines
    index,         \* BaseDoc.index: the cursor
    headers,       \* BaseDoc.headers: header name -> refactor method postfix
    pc,            \* position of the running method
    header,        \* parse(): local `header`, the result of is_section()
    r_index,       \* _refactor_header(): local `index`
    r_indent,      \* _refactor_header(): local `indent`
    descriptions,  \* _refactor_header(): local `descriptions`
    start,         \* get_next_block(): local `start`
    b_indent,      \* get_next_block(): local `indent`
    field,         \* get_next_block(): local `field`, the block being built
    inputIsList,   \* __init__: TRUE when `lines` was a list (aliased), FALSE a str
    supplied,      \* the lines as the caller supplied them
    old,           \* the buffer when the operation under way was entered
    oldIndex,      \* the cursor when the operation under way was entered
    iter,          \* parse(): number of scan-loop iterations begun
    iterIndex,     \* the cursor at the start of the last iteration begun
    iterLen,       \* len(docstring) at the start of the last iteration begun
    run,           \* which pass over the buffer is running (1 or 2)
    firstOutput,   \* the buffer at the end of the first pass
    result,        \* what the call under way returned
    call,          \* the call under way and its arguments
    lastRemove,    \* <<at, count, len>> of the last remove_lines call
    collapsed,     \* parse(): headers found with a blank line after the underline
    ef_indent,     \* extract_fields(): argument `indent`
    parameters,    \* extract_fields(): local `parameters`
    gnb_ret        \* where get_next_block() returns to

vars == <<docstring, index, headers, pc, header, r_index, r_indent,
          descriptions, start, b_indent, field, inputIsList, supplied,
          old, oldIndex, iter, iterIndex, iterLen, run, firstOutput,
          result, call, lastRemove, collapsed, ef_indent, parameters,
          gnb_ret>>

refactorLocals == <<r_index, r_indent, descriptions>>
blockLocals == <<start, b_indent, field>>
callLocals == <<result, call>>
fieldLocals == <<ef_indent, parameters, gnb_ret>>
removals == <<lastRemove, collapsed>>
callState == <<callLocals, fieldLocals, removals>>
caller == <<headers, inputIsList, supplied>>
passes == <<run, firstOutput>>
entry == <<old, oldIndex>>
loopGhost == <<iter, iterIndex, iterLen>>

----------------------------------------------------------------------------
(* Bounds of the model.                                                    *)

MaxLines == 4          \* lines of a docstring given to parse()
MaxLiveLines == 3      \* the same, where termination is checked
MaxHeaderLen == 3      \* characters of a line given to is_section() alone
MaxBlockLines == 4     \* lines of a buffer given to get_next_block() alone

----------------------------------------------------------------------------
(* Characters and the string methods the code uses.                        *)

Letters ==
    {"a", "b", "c", "d", "e", "f", "g", "h", "i", "j", "k", "l", "m",
     "n", "o", "p", "q", "r", "s", "t", "u", "v", "w", "x", "y", "z",
     "A", "B", "C", "D", "E", "F", "G", "H", "I", "J", "K", "L", "M",
     "N", "O", "P", "Q", "R", "S", "T", "U", "V", "W", "X", "Y", "Z"}

Digits == {"0", "1", "2", "3", "4", "5", "6", "7", "8", "9"}

\* \w of the regexes
WordChars == Letters \cup Digits \cup {"_"}

\* \s of the regexes, and what str.strip() removes
Whitespace == {" ", "\t", "\n", "\r", "\f"}

Backslash == "\\"

Min(a, b) == IF a <= b THEN a ELSE b

\* All strings over the characters S of length at most n.
Strings(S, n) == UNION {[1..k -> S] : k \in 0..n}

\* All lists of at most n lines drawn from L.
Lists(L, n) == UNION {[1..k -> L] : k \in 0..n}

\* Number of leading / trailing whitespace characters of a line.
LeadingWs(line) ==
    LET solid == {i \in 1..Len(line) : line[i] \notin Whitespace}
    IN  IF solid = {} THEN Len(line)
        ELSE (CHOOSE i \in solid : \A j \in solid : i <= j) - 1

TrailingWs(line) ==
    LET solid == {i \in 1..Len(line) : line[i] \notin Whitespace}
    IN  IF solid = {} THEN Len(line)
        ELSE Len(line) - (CHOOSE i \in solid : \A j \in solid : j <= i)

lstrip(line) == SubSeq(line, LeadingWs(line) + 1, Len(line))

rstrip(line) == SubSeq(line, 1, Len(line) - TrailingWs(line))

strip(line) == lstrip(rstrip(line))

startswith(line, prefix) ==
    /\ Len(prefix) <= Len(line)
    /\ SubSeq(line, 1, Len(prefix)) = prefix

\* str.strip(chars): drop the leading and trailing characters that are in S.
StripChars(s, S) ==
    LET keep == {i \in 1..Len(s) : s[i] \notin S}
    IN  IF keep = {} THEN << >>
        ELSE SubSeq(s, CHOOSE i \in keep : \A j \in keep : i <= j,
                       CHOOSE i \in keep : \A j \in keep : j <= i)

RECURSIVE Flatten(_)
Flatten(ss) == IF ss = << >> THEN << >> ELSE Head(ss) \o Flatten(Tail(ss))

\* repr() of a str: quoted with ', or with " when the text holds a ' and no ";
\* a backslash, the quote character and a tab are escaped.
python_repr(s) ==
    LET quote == IF (\E i \in 1..Len(s) : s[i] = "'")
                    /\ ~(\E i \in 1..Len(s) : s[i] = "\"")
                 THEN "\"" ELSE "'"
        esc(c) == IF c = Backslash THEN <<Backslash, Backslash>>
                  ELSE IF c = quote THEN <<Backslash, c>>
                  ELSE IF c = "\t" THEN <<Backslash, "t">>
                  ELSE <<c>>
    IN  <<quote>> \o Flatten([i \in 1..Len(s) |-> esc(s[i])]) \o <<quote>>

----------------------------------------------------------------------------
(* Module-level functions of base_doc.py.                                  *)

get_indent(line) == SubSeq(line, 1, LeadingWs(line))

is_empty(line) == Len(strip(line)) = 0

----------------------------------------------------------------------------
(* The buffer primitives of BaseDoc.                                       *)

eol(doc, i) == i >= Len(doc)

\* peek(ahead): the line at index + ahead, '' beyond the end (IndexError).
peek(doc, i, ahead) ==
    LET position == i + ahead
    IN  IF position < Len(doc) THEN doc[position + 1] ELSE << >>

\* remove_lines() deleting the lines that end at `at` instead of those that
\* start there.
remove_lines_before(doc, at, count) ==
    LET hi == Min(at, Len(doc))
        lo == IF hi - count < 0 THEN 0 ELSE hi - count
    IN  SubSeq(doc, 1, lo) \o SubSeq(doc, hi + 1, Len(doc))

\* remove_lines() deleting one line too few.
remove_lines_short(doc, at, count) ==
    LET lo == Min(at, Len(doc))
        hi == Min(at + count - 1, Len(doc))
    IN  SubSeq(doc, 1, lo) \o SubSeq(doc, IF hi < lo THEN lo + 1 ELSE hi + 1, Len(doc))

\* del docstring[index:(index + count)]: the slice is clamped to the list.
remove_lines(doc, at, count) ==
    LET lo == Min(at, Len(doc))
        hi == Min(at + count, Len(doc))
    IN  SubSeq(doc, 1, lo) \o SubSeq(doc, hi + 1, Len(doc))

\* list.append(line) in the place of list.insert(index, line).
list_insert_append(doc, at, line) == doc \o <<line>>

\* list.insert(index, line): the position is clamped to the list.
list_insert(doc, at, line) ==
    LET p == Min(at, Len(doc))
    IN  SubSeq(doc, 1, p) \o <<line>> \o SubSeq(doc, p + 1, Len(doc))

\* insert_lines() that inserts the first line only.
insert_lines_dropping(doc, lines, at) ==
    IF lines = << >> THEN doc ELSE list_insert(doc, at, lines[1])

\* insert_lines() without reversed(): the lines end up in reverse order.
RECURSIVE insert_lines_forward(_, _, _)
insert_lines_forward(doc, lines, at) ==
    IF lines = << >> THEN doc
    ELSE insert_lines_forward(list_insert(doc, at, lines[1]), Tail(lines), at)

\* for line in reversed(lines): docstring.insert(index, line)
RECURSIVE insert_lines(_, _, _)
insert_lines(doc, lines, at) ==
    IF lines = << >> THEN doc
    ELSE insert_lines(list_insert(doc, at, lines[Len(lines)]),
                      SubSeq(lines, 1, Len(lines) - 1), at)

----------------------------------------------------------------------------
(* is_section()                                                            *)

\* Python's False and None, as values no line can equal.
False == <<"False">>
None == <<"None">>

\* `if header:` -- a string is true when it is not empty.
Truthy(h) == h # False /\ h # None /\ h # << >>

\* re.match(r'\s*\S+\s*\Z', line2): the match's group() or None.  The
\* pattern is anchored at both ends, so group() is the whole of line2.
underline_match(line2) ==
    LET core == strip(line2)
    IN  IF Len(core) > 0 /\ \A i \in 1..Len(core) : core[i] \notin Whitespace
        THEN line2 ELSE None

\* re.sub(r'[A-Za-z\\]|\b\s', ch, striped_header): a letter or a backslash
\* is replaced, and so is a whitespace character that follows a word
\* character (\b before a non-word character holds only after a word one).
expected_underline(striped_header, ch) ==
    [i \in 1..Len(striped_header) |->
        IF striped_header[i] \in Letters \cup {Backslash} THEN ch
        ELSE IF /\ striped_header[i] \in Whitespace
                /\ i > 1
                /\ striped_header[i - 1] \in WordChars
             THEN ch
             ELSE striped_header[i]]

\* is_section() comparing the underline stripped on both sides.
is_section_lenient(doc, i) ==
    IF eol(doc, i) THEN False
    ELSE LET hdr == peek(doc, i, 0)
             line2 == peek(doc, i, 1)
             underline == underline_match(line2)
         IN  IF underline = None THEN False
             ELSE IF \/ strip(underline) = expected_underline(rstrip(hdr), "-")
                     \/ strip(underline) = expected_underline(rstrip(hdr), "=")
                  THEN strip(hdr)
                  ELSE False

is_section(doc, i) ==
    IF eol(doc, i) THEN False
    ELSE LET hdr == peek(doc, i, 0)
             line2 == peek(doc, i, 1)
             underline == underline_match(line2)
         IN  IF underline = None THEN False
             ELSE LET striped_header == rstrip(hdr)
                      expected_underline1 == expected_underline(striped_header, "-")
                      expected_underline2 == expected_underline(striped_header, "=")
                  IN  IF \/ rstrip(underline) = expected_underline1
                         \/ rstrip(underline) = expected_underline2
                      THEN strip(hdr)
                      ELSE False

----------------------------------------------------------------------------
(* _refactor() and _refactor_header()                                      *)

\* The _refactor_<postfix> methods BaseDoc defines.
RefactorMethods == {"header"}

\* self.headers.get(header, 'header')
refactor_postfix(reg, h) == IF h \in DOMAIN reg THEN reg[h] ELSE "header"

\* indent + '.. rubric:: {0}'.format(repr(header).strip("'")), then ''
rubric_lines(indent, h) ==
    << indent
       \o <<".", ".", " ", "r", "u", "b", "r", "i", "c", ":", ":", " ">>
       \o StripChars(python_repr(h), {"'"}),
       << >> >>

----------------------------------------------------------------------------
(* What the caller holds: the list it passed is the buffer itself (line    *)
(* 240), a str it passed is split into a new list (line 238).              *)

CallerLines == IF inputIsList THEN docstring ELSE supplied

EmptyRegistry == << >>

----------------------------------------------------------------------------
(* Inputs.                                                                 *)

\* The lines a docstring given to parse() is made of: an empty and a
\* whitespace-only line, one-word and two-word headers with their '-' and
\* '=' underlines, and an indented header with its underline.
ParseLines ==
    { << >>, <<" ">>,
      <<"a">>, <<"-">>, <<"=">>,
      <<" ", "a">>, <<" ", "-">>,
      <<"a", " ", "a">>, <<"-", "-", "-">> }
ParseDocs == Lists(ParseLines, MaxLines)

\* Registries a caller may pass: no entry, or the header 'a' bound to the
\* default postfix or to a postfix BaseDoc has no method for.
RegistryNames == {<<"a">>}
RegistryPostfixes == {"header", "unknown"}
Registries == UNION {[S -> RegistryPostfixes] : S \in SUBSET RegistryNames}

InitLocals ==
    /\ header = False
    /\ r_index = 0
    /\ r_indent = << >>
    /\ descriptions = << >>
    /\ start = 0
    /\ b_indent = << >>
    /\ field = << >>
    /\ iter = 0
    /\ iterIndex = 0
    /\ iterLen = 0
    /\ run = 1
    /\ firstOutput = << >>
    /\ result = None
    /\ lastRemove = << >>
    /\ collapsed = 0
    /\ parameters = << >>

\* No call of a single method is under way.
InitCall ==
    /\ call = [op |-> "none"]
    /\ ef_indent = << >>
    /\ gnb_ret = "returned"

\* BaseDoc(lines): a list of lines, no headers given (line 243).
Init ==
    /\ docstring \in ParseDocs
    /\ supplied = docstring
    /\ inputIsList = TRUE
    /\ headers = EmptyRegistry
    /\ index = 0
    /\ pc = "start"
    /\ old = docstring
    /\ oldIndex = 0
    /\ InitLocals
    /\ InitCall

\* The lines of the docstrings termination is checked on.
LiveLines ==
    { << >>, <<" ">>, <<"a">>, <<"-">>, <<" ", "a">>, <<" ", "-">> }

\* As Init, over the docstrings of the termination check.
InitLive ==
    /\ Init
    /\ docstring \in Lists(LiveLines, MaxLiveLines)

\* BaseDoc(lines, headers): a list or a str, with a registry.
InitRegistry ==
    /\ docstring \in ParseDocs
    /\ supplied = docstring
    /\ inputIsList \in BOOLEAN
    /\ headers \in Registries
    /\ index = 0
    /\ pc = "start"
    /\ old = docstring
    /\ oldIndex = 0
    /\ InitLocals
    /\ InitCall

----------------------------------------------------------------------------
(* parse()                                                                 *)

\* line 262: self.index = 0, then the call of line 263
ParseStart ==
    /\ pc = "start"
    /\ index' = 0
    /\ pc' = "seek"
    /\ UNCHANGED <<docstring, header, refactorLocals, blockLocals, caller,
                   callState, entry, loopGhost, passes>>

\* seek_to_next_non_empty_line(): one turn of the for loop, index += 1
SeekSkip ==
    /\ pc = "seek"
    /\ ~eol(docstring, index)
    /\ is_empty(peek(docstring, index, 0))
    /\ index' = index + 1
    /\ UNCHANGED <<docstring, pc, header, refactorLocals, blockLocals, caller,
                   callState, entry, loopGhost, passes>>

\* seek_to_next_non_empty_line(): break, or the slice is exhausted
SeekStop ==
    /\ pc = "seek"
    /\ eol(docstring, index) \/ ~is_empty(peek(docstring, index, 0))
    /\ pc' = "loop"
    /\ UNCHANGED <<docstring, index, header, refactorLocals, blockLocals,
                   caller, callState, entry, loopGhost, passes>>

\* line 264, eol: the loop and parse() end
ParseDone ==
    /\ pc = "loop"
    /\ eol(docstring, index)
    /\ pc' = "done"
    /\ UNCHANGED <<docstring, index, header, refactorLocals, blockLocals,
                   caller, callState, entry, loopGhost, passes>>

\* lines 264-267: an iteration begins, header = self.is_section()
ParseLoop ==
    /\ pc = "loop"
    /\ ~eol(docstring, index)
    /\ header' = is_section(docstring, index)
    /\ pc' = "checked"
    /\ iter' = iter + 1
    /\ iterIndex' = index
    /\ iterLen' = Len(docstring)
    /\ UNCHANGED <<docstring, index, refactorLocals, blockLocals, caller,
                   callState, entry, passes>>

\* A variant of after_header that removes every blank line that follows
\* the underline.
RECURSIVE after_header_greedy(_, _)
after_header_greedy(doc, i) ==
    IF is_empty(peek(doc, i, 2)) /\ i + 2 < Len(doc)
    THEN after_header_greedy(remove_lines(doc, i + 2, 1), i)
    ELSE doc

\* lines 269-270: if is_empty(self.peek(2)): self.remove_lines(self.index + 2)
after_header(doc, i) ==
    IF is_empty(peek(doc, i, 2)) THEN remove_lines(doc, i + 2, 1) ELSE doc

\* lines 268-271: a header; the blank line after the underline is removed
\* and _refactor(header) is called
ParseHeader ==
    /\ pc = "checked"
    /\ Truthy(header)
    /\ docstring' = after_header(docstring, index)
    /\ lastRemove' = IF is_empty(peek(docstring, index, 2))
                      THEN <<index + 2, 1, Len(docstring)>>
                      ELSE lastRemove
    /\ collapsed' = IF index + 2 < Len(docstring)
                        /\ docstring[index + 3] \in Strings(Whitespace, Len(docstring[index + 3]))
                     THEN collapsed + 1
                     ELSE collapsed
    /\ pc' = "refactor"
    /\ old' = docstring'
    /\ oldIndex' = index
    /\ UNCHANGED <<index, header, refactorLocals, blockLocals, caller,
                   callLocals, fieldLocals, loopGhost, passes>>

\* The else branch of parse() without its index += 1.
parse_stall(i) == i

\* line 273: self.index += 1
parse_advance(i) == i + 1

\* lines 272-274: no header; index += 1, then the call of line 274
ParseNoHeader ==
    /\ pc = "checked"
    /\ ~Truthy(header)
    /\ index' = parse_advance(index)
    /\ pc' = "seek"
    /\ UNCHANGED <<docstring, header, refactorLocals, blockLocals, caller,
                   callState, entry, loopGhost, passes>>

\* _refactor(), lines 290-293: getattr raises AttributeError when BaseDoc has
\* no method of that name, and the error leaves parse() and __init__.
Refactor ==
    /\ pc = "refactor"
    /\ pc' = IF refactor_postfix(headers, header) \in RefactorMethods
             THEN "refactor_header" ELSE "failed"
    /\ UNCHANGED <<docstring, index, header, refactorLocals, blockLocals,
                   caller, callState, entry, loopGhost, passes>>

\* _refactor_header(), lines 310-312
RefactorHeaderRemove ==
    /\ pc = "refactor_header"
    /\ r_index' = index
    /\ r_indent' = get_indent(peek(docstring, index, 0))
    /\ docstring' = remove_lines(docstring, index, 2)
    /\ lastRemove' = <<index, 2, Len(docstring)>>
    /\ descriptions' = << >>
    /\ pc' = "rh_removed"
    /\ UNCHANGED <<index, header, blockLocals, caller, callLocals, fieldLocals,
                   collapsed, entry, loopGhost, passes>>

\* _refactor_header(), lines 313-319
RefactorHeaderInsert ==
    /\ pc = "rh_removed"
    /\ descriptions' = rubric_lines(r_indent, header)
    /\ docstring' = insert_lines(docstring, descriptions', r_index)
    /\ pc' = "rh_inserted"
    /\ UNCHANGED <<index, header, r_index, r_indent, blockLocals, caller,
                   callState, entry, loopGhost, passes>>

\* _refactor_header() putting the cursor back at the top of the buffer.
refactor_advance_rewinding(i, descs) == 0

\* _refactor_header() moving the cursor one line too far.
refactor_advance_skipping(i, descs) == i + Len(descs) + 1

\* line 320: self.index += len(descriptions)
refactor_advance(i, descs) == i + Len(descs)

\* _refactor_header(), lines 320-321, and the return to the loop of parse()
RefactorHeaderAdvance ==
    /\ pc = "rh_inserted"
    /\ index' = refactor_advance(index, descriptions)
    /\ pc' = "loop"
    /\ UNCHANGED <<docstring, header, refactorLocals, blockLocals, caller,
                   callState, entry, loopGhost, passes>>

Next ==
    \/ ParseStart
    \/ SeekSkip
    \/ SeekStop
    \/ ParseDone
    \/ ParseLoop
    \/ ParseHeader
    \/ ParseNoHeader
    \/ Refactor
    \/ RefactorHeaderRemove
    \/ RefactorHeaderInsert
    \/ RefactorHeaderAdvance

Spec == Init /\ [][Next]_vars

\* One call runs to its end: parse() is sequential code with no suspension.
LiveSpec == InitLive /\ [][Next]_vars /\ WF_vars(Next)

SpecRegistry == InitRegistry /\ [][Next]_vars

\* The caller runs BaseDoc again on the lines the first pass left.
Rerun ==
    /\ pc = "done"
    /\ run = 1
    /\ run' = 2
    /\ firstOutput' = docstring
    /\ pc' = "start"
    /\ header' = False
    /\ iter' = 0
    /\ UNCHANGED <<docstring, index, refactorLocals, blockLocals, caller,
                   callState, entry, iterIndex, iterLen>>

NextTwice == Next \/ Rerun

SpecTwice == Init /\ [][NextTwice]_vars

----------------------------------------------------------------------------
(* Claims about parse().                                                   *)

\* C1: in every state of parse() under the default strategy, the states
\* inside _refactor_header and seek_to_next_non_empty_line included, the
\* cursor satisfies 0 <= index <= len(docstring).
C1_CursorInvariant == 0 <= index /\ index <= Len(docstring)

\* C1 witness: inside _refactor_header, after a header and underline that
\* ended the buffer were removed, the cursor sits at the end of the buffer.
C1_Witness ==
    /\ pc = "rh_removed"
    /\ index = Len(docstring)
    /\ index > 0

\* C2: parse() reaches its end (eol at the loop test) on every input, and
\* each iteration of the scan loop leaves len(docstring) - index strictly
\* smaller than it found it.
C2_Termination ==
    /\ <>(pc = "done")
    /\ [](pc = "loop" /\ iter > 0
            => Len(docstring) - index < iterLen - iterIndex)

\* C2 witness: parse() ended after iterations of both kinds, one of which
\* rewrote a header.
C2_Witness ==
    /\ pc = "done"
    /\ iter >= 2
    /\ docstring # supplied

\* C3: with no strategy registered, a second pass over the output of the
\* first changes nothing, and that output holds no pair of lines that
\* is_section recognizes.
C3_Idempotent ==
    /\ (run = 2 /\ pc = "done") => docstring = firstOutput
    /\ pc = "done" =>
          \A i \in 0..(Len(docstring) - 1) : is_section(docstring, i) = False

\* C3 witness: a second pass ended on an output the first pass had rewritten.
C3_Witness ==
    /\ run = 2
    /\ pc = "done"
    /\ firstOutput # supplied

\* C4: when the transformation fails, the caller's lines are exactly the
\* lines it supplied.
C4_NoPartialOutput == pc = "failed" => CallerLines = supplied

\* A header made of words of letters separated by single spaces.
IsPlainHeader(h) ==
    /\ Len(h) > 0
    /\ \A i \in 1..Len(h) : h[i] \in Letters \cup {" "}
    /\ h[1] \in Letters
    /\ h[Len(h)] \in Letters
    /\ \A i \in 1..(Len(h) - 1) : ~(h[i] = " " /\ h[i + 1] = " ")

\* C8: when _refactor returns for a plain header H found at index i under
\* indentation d with no strategy registered, the header and its underline
\* are replaced by d + '.. rubric:: ' + H and an empty line, index = i + 2,
\* no block was extracted, and the lines before i and after the underline
\* are as they were when _refactor was called.
C8_DefaultStrategy ==
    (pc = "loop" /\ Truthy(header) /\ IsPlainHeader(header)) =>
        LET i == oldIndex
            d == get_indent(old[i + 1])
        IN  /\ header = strip(old[i + 1])
            /\ index = i + 2
            /\ Len(docstring) = Len(old)
            /\ docstring[i + 1] =
                 d \o <<".", ".", " ", "r", "u", "b", "r", "i", "c", ":", ":", " ">>
                   \o header
            /\ docstring[i + 2] = << >>
            /\ docstring[i + 1] # old[i + 1]
            /\ docstring[i + 2] # old[i + 2]
            /\ SubSeq(docstring, 1, i) = SubSeq(old, 1, i)
            /\ SubSeq(docstring, i + 3, Len(docstring))
                 = SubSeq(old, i + 3, Len(old))
            /\ field = << >>

\* C8 witness: _refactor returned for an indented header that had a line
\* before it and a line after its underline.
C8_Witness ==
    /\ pc = "loop"
    /\ Truthy(header)
    /\ IsPlainHeader(header)
    /\ oldIndex > 0
    /\ Len(old) > oldIndex + 2
    /\ get_indent(old[oldIndex + 1]) # << >>

----------------------------------------------------------------------------
(* is_section() called on its own.                                         *)

HeaderChars == {"a", Backslash, " ", "1"}
UnderlineChars == {"-", "=", " ", "1"}
\* Headers of two words, with a backslash on either side of the space.
TwoWordHeaders ==
    { <<"a", " ", "a", "a">>,
      <<"a", Backslash, " ", "a">>,
      <<"a", " ", Backslash, "a">> }
HeaderLines == Strings(HeaderChars, MaxHeaderLen) \cup TwoWordHeaders
UnderLines == Strings(UnderlineChars, MaxHeaderLen + 1)

\* What may stand before the cursor.
SectionPrefixes == {<< >>, << <<"a">> >>}

InitSection ==
    /\ \E pre \in SectionPrefixes :
          /\ index = Len(pre)
          /\ \/ docstring = pre
             \/ \E h \in HeaderLines : docstring = pre \o <<h>>
             \/ \E h \in HeaderLines, u \in UnderLines :
                   docstring = pre \o <<h, u>>
    /\ supplied = docstring
    /\ inputIsList = TRUE
    /\ headers = EmptyRegistry
    /\ pc = "call_is_section"
    /\ old = docstring
    /\ oldIndex = index
    /\ InitLocals
    /\ InitCall

\* header = self.is_section()
IsSectionCall ==
    /\ pc = "call_is_section"
    /\ header' = is_section(docstring, index)
    /\ pc' = "returned"
    /\ UNCHANGED <<docstring, index, refactorLocals, blockLocals, caller,
                   callState, entry, loopGhost, passes>>

NextSection == IsSectionCall

SpecSection == InitSection /\ [][NextSection]_vars

----------------------------------------------------------------------------
(* get_next_block() called on its own.                                     *)

\* The lines of a buffer given to get_next_block(): blank lines, field
\* headers at two depths, continuation lines, trailing whitespace.
BlockLines ==
    { << >>, <<" ">>, <<" ", " ">>,
      <<"a">>, <<"a", " ">>,
      <<" ", "a">>, <<" ", "a", " ">>,
      <<" ", " ", "a">> }
BlockDocs == Lists(BlockLines, MaxBlockLines)

InitBlock ==
    /\ docstring \in BlockDocs
    /\ index \in 0..Len(docstring)
    /\ supplied = docstring
    /\ inputIsList = TRUE
    /\ headers = EmptyRegistry
    /\ pc = "call_get_next_block"
    /\ old = docstring
    /\ oldIndex = index
    /\ InitLocals
    /\ InitCall

\* lines 417-420; read() raises IndexError at eol (line 561)
GnbRead ==
    /\ pc = "call_get_next_block"
    /\ start' = index
    /\ IF index < Len(docstring)
       THEN /\ index' = index + 1
            /\ b_indent' = get_indent(docstring[index + 1]) \o <<" ">>
            /\ field' = <<docstring[index + 1]>>
            /\ pc' = "gnb_loop"
       ELSE /\ pc' = "failed"
            /\ UNCHANGED <<index, b_indent, field>>
    /\ UNCHANGED <<docstring, header, refactorLocals, caller, callState, entry,
                   loopGhost, passes>>

\* The while loop that stops at every blank line.
block_continues_no_lookahead(doc, i, indent) ==
    /\ ~eol(doc, i)
    /\ ~is_empty(peek(doc, i, 0))
    /\ startswith(peek(doc, i, 0), indent)

\* lines 424-431: the loop goes on when neither break is taken
block_continues(doc, i, indent) ==
    /\ ~eol(doc, i)
    /\ LET peek_0 == peek(doc, i, 0)
           peek_1 == peek(doc, i, 1)
       IN  /\ ~(is_empty(peek_0) /\ ~startswith(peek_1, indent))
           /\ ~(~is_empty(peek_0) /\ ~startswith(peek_0, indent))

\* lines 432-433: line = self.read(); field.append(line.rstrip())
GnbContinue ==
    /\ pc = "gnb_loop"
    /\ block_continues(docstring, index, b_indent)
    /\ field' = Append(field, rstrip(docstring[index + 1]))
    /\ index' = index + 1
    /\ UNCHANGED <<docstring, pc, header, refactorLocals, start, b_indent,
                   caller, callState, entry, loopGhost, passes>>

\* lines 424-430: eol or a break ends the loop
GnbBreak ==
    /\ pc = "gnb_loop"
    /\ ~block_continues(docstring, index, b_indent)
    /\ pc' = "gnb_remove"
    /\ UNCHANGED <<docstring, index, header, refactorLocals, blockLocals,
                   caller, callState, entry, loopGhost, passes>>

\* line 437: self.remove_lines(start, len(field))
GnbRemove ==
    /\ pc = "gnb_remove"
    /\ docstring' = remove_lines(docstring, start, Len(field))
    /\ lastRemove' = <<start, Len(field), Len(docstring)>>
    /\ pc' = "gnb_reset"
    /\ UNCHANGED <<index, header, refactorLocals, blockLocals, caller,
                   callLocals, fieldLocals, collapsed, entry, loopGhost, passes>>

\* lines 438-439: self.index = start; return field
GnbReset ==
    /\ pc = "gnb_reset"
    /\ index' = start
    /\ pc' = gnb_ret
    /\ UNCHANGED <<docstring, header, refactorLocals, blockLocals, caller,
                   callState, entry, loopGhost, passes>>

NextBlock ==
    \/ GnbRead
    \/ GnbContinue
    \/ GnbBreak
    \/ GnbRemove
    \/ GnbReset

SpecBlock == InitBlock /\ [][NextBlock]_vars

----------------------------------------------------------------------------
(* Claims about is_section().                                              *)

\* The two lines is_section() was called on.
CalledHeader == peek(old, oldIndex, 0)
CalledLine2 == peek(old, oldIndex, 1)

\* n copies of the character ch.
Run(n, ch) == [i \in 1..n |-> ch]

\* Words of letters, a word possibly holding backslashes, separated by
\* single spaces.
IsWordHeader(h) ==
    /\ Len(h) > 0
    /\ \A i \in 1..Len(h) : h[i] \in Letters \cup {Backslash, " "}
    /\ h[1] # " "
    /\ h[Len(h)] # " "
    /\ \A i \in 1..(Len(h) - 1) : ~(h[i] = " " /\ h[i + 1] = " ")
    /\ \A i \in 1..Len(h) :
          h[i] = Backslash =>
             \E j \in 1..Len(h) :
                /\ h[j] \in Letters
                /\ \A k \in Min(i, j)..(IF i < j THEN j ELSE i) : h[k] # " "

\* C5: a header of words of letters (a word may hold a backslash) separated
\* by single spaces, followed by len(H) copies of '-' or of '=' (trailing
\* whitespace allowed), is returned stripped, and the call changes neither
\* the buffer nor the cursor.
C5_HeaderRecognition ==
    ( /\ pc = "returned"
      /\ oldIndex + 1 < Len(old)
      /\ IsWordHeader(CalledHeader)
      /\ rstrip(CalledLine2) \in { Run(Len(CalledHeader), "-"),
                                   Run(Len(CalledHeader), "=") } )
    => /\ header = strip(CalledHeader)
       /\ docstring = old
       /\ index = oldIndex

\* C6: when the second line is not the computed underline of the first
\* (in particular when its length differs from the header's, when under a
\* header of letters it holds, inside its indentation, a character other
\* than '-' and '=', or when the header line is blank), is_section returns False, and the call
\* changes neither the buffer nor the cursor.
C6_HeaderRejection ==
    pc = "returned" =>
        /\ docstring = old
        /\ index = oldIndex
        /\ rstrip(CalledLine2) \notin
               { expected_underline(rstrip(CalledHeader), "-"),
                 expected_underline(rstrip(CalledHeader), "=") }
             => header = False
        /\ Len(rstrip(CalledLine2)) # Len(rstrip(CalledHeader))
             => header = False
        /\ ( /\ \A i \in 1..Len(CalledHeader) :
                   CalledHeader[i] \in Letters \cup {Backslash, " "}
             /\ \E i \in 1..Len(strip(CalledLine2)) :
                   strip(CalledLine2)[i] \notin {"-", "="} )
             => header = False
        /\ is_empty(CalledHeader) => header = False

\* C6 witness: a one-word header over an underline one character too long
\* was rejected.
C6_Witness ==
    /\ pc = "returned"
    /\ header = False
    /\ CalledHeader = <<"a", "a">>
    /\ CalledLine2 = <<"-", "-", "-">>

\* A non-empty run of one repeated punctuation character.
IsPunctuationRun(s) ==
    /\ Len(s) > 0
    /\ s[1] \notin WordChars \cup Whitespace
    /\ \A i \in 1..Len(s) : s[i] = s[1]

\* C7: is_section reports a header only when the second line, stripped, is
\* a non-empty run of one repeated punctuation character.
C7_UnderlineShape ==
    (pc = "returned" /\ header # False)
        => IsPunctuationRun(strip(CalledLine2))

----------------------------------------------------------------------------
(* Claims about get_next_block().                                          *)

\* The block prefix: the indentation of the block's first line and a space.
BlockPrefix == get_indent(old[oldIndex + 1]) \o <<" ">>

\* The line at zero-based position j of the buffer get_next_block() was
\* called on belongs to the block: it is non-blank and starts with the
\* prefix, or it is blank and the line after it starts with the prefix.
InBlock(j) ==
    LET line == old[j + 1]
        blank == \A i \in 1..Len(line) : line[i] \in Whitespace
    IN  \/ ~blank /\ startswith(line, BlockPrefix)
        \/ /\ blank
           /\ j + 1 < Len(old)
           /\ startswith(old[j + 2], BlockPrefix)

\* C9: the block returned from a non-eol cursor s is the longest run of
\* lines from s in which every line after the first belongs to the block.
C9_BlockBoundary ==
    pc = "returned" =>
        /\ Len(field) >= 1
        /\ oldIndex + Len(field) <= Len(old)
        /\ \A k \in 1..(Len(field) - 1) : InBlock(oldIndex + k)
        /\ oldIndex + Len(field) < Len(old)
             => ~InBlock(oldIndex + Len(field))

\* C9 witness: from the cursor, a field, a blank line, a deeper-indented
\* line, then a field at the first one's indent with no blank line before
\* it; the block is the first three lines.
C9_Witness ==
    /\ pc = "returned"
    /\ old = << <<"a">>, << >>, <<" ", "a">>, <<"a">> >>
    /\ oldIndex = 0
    /\ Len(field) = 3

\* t is s without its trailing whitespace.
IsRstripOf(t, s) ==
    /\ Len(t) <= Len(s)
    /\ t = SubSeq(s, 1, Len(t))
    /\ Len(t) > 0 => t[Len(t)] \notin Whitespace
    /\ \A i \in (Len(t) + 1)..Len(s) : s[i] \in Whitespace

\* C10: after get_next_block called at a non-eol cursor s returned B,
\* index = s, the buffer is the old one without the lines [s, s + len(B)),
\* B[0] is the old line s as it was, and each later B[k] is the old line
\* s + k without its trailing whitespace.
C10_BlockExtraction ==
    pc = "returned" =>
        /\ index = oldIndex
        /\ Len(field) >= 1
        /\ docstring = SubSeq(old, 1, oldIndex)
                         \o SubSeq(old, oldIndex + Len(field) + 1, Len(old))
        /\ field[1] = old[oldIndex + 1]
        /\ \A k \in 1..(Len(field) - 1) :
              IsRstripOf(field[k + 1], old[oldIndex + k + 1])

\* C10 witness: a block taken from the middle of the buffer, with a header
\* line that ends in whitespace and a continuation line that lost its own.
C10_Witness ==
    /\ pc = "returned"
    /\ oldIndex = 1
    /\ Len(field) = 2
    /\ Len(docstring) = 2
    /\ field[1] = <<"a", " ">>
    /\ old[3] = <<" ", "a", " ">>
    /\ field[2] = <<" ", "a">>

----------------------------------------------------------------------------
(* Item headers: OrDefinitionItem.is_item and OrDefinitionItem.parse       *)
(* (src/sectiondoc/items/or_definition_item.py) and BaseDoc.parse_field,   *)
(* each called on its own.                                                 *)

MaxClassifiers == 3    \* classifiers joined by ' or ' in an item header

\* Matching a regular expression from the start of s: each operator takes
\* the set P of lengths matched so far and gives the lengths matched after
\* one more piece of the pattern.
\* a literal text
AfterText(s, P, text) ==
    {p + Len(text) : p \in {q \in P : /\ q + Len(text) <= Len(s)
                                      /\ SubSeq(s, q + 1, q + Len(text)) = text}}

\* one character of the class S
AfterOne(s, P, S) == {p + 1 : p \in {q \in P : q < Len(s) /\ s[q + 1] \in S}}

\* S+ : one or more characters of the class S
AfterSome(s, P, S) ==
    {q \in 1..Len(s) : \E p \in P : p < q /\ \A k \in (p + 1)..q : s[k] \in S}

\* S{0,n} : at most n characters of the class S
AfterUpTo(s, P, S, n) ==
    {q \in 0..Len(s) : \E p \in P : /\ p <= q
                                    /\ q <= p + n
                                    /\ \A k \in (p + 1)..q : s[k] \in S}

\* (\(.*\))? : nothing, or a parenthesis, any characters but a newline, and
\* a closing parenthesis
AfterSignature(s, P) ==
    P \cup {q \in 1..Len(s) : \E p \in P : /\ p + 2 <= q
                                           /\ s[p + 1] = "("
                                           /\ s[q] = ")"
                                           /\ \A k \in (p + 2)..(q - 1) : s[k] # "\n"}

\* $ : the end of s, or just before a newline that ends s
AtEnd(s, P) ==
    \E p \in P : \/ p = Len(s)
                 \/ p = Len(s) - 1 /\ s[Len(s)] = "\n"

\* definition_regex.match(line) is not None
definition_regex(line) ==
    LET dotted(P) ==
            AfterSignature(line,
                AfterSome(line, AfterOne(line, P, Whitespace),
                          WordChars \cup {"."}))
        word == AfterOne(line,
                    AfterOne(line,
                        AfterSome(line, AfterUpTo(line, {0}, {"*"}, 2),
                                  WordChars),
                        Whitespace),
                    {":"})
        space == AfterOne(line, word, Whitespace)
        one == dotted(word)
        two == dotted(AfterText(line, AfterOne(line, one, Whitespace),
                                <<"o", "r">>))
    IN  AtEnd(line, word \cup space \cup one \cup two)

\* OrDefinitionItem.is_item(line)
is_item(line) == definition_regex(line)

\* text in s
contains(s, text) ==
    \E k \in 0..(Len(s) - Len(text)) : SubSeq(s, k + 1, k + Len(text)) = text

\* s.split(sep): s cut at every occurrence of sep, left to right
RECURSIVE str_split(_, _)
str_split(s, sep) ==
    LET hits == {k \in 0..(Len(s) - Len(sep)) :
                     SubSeq(s, k + 1, k + Len(sep)) = sep}
    IN  IF hits = {} THEN <<s>>
        ELSE LET k == CHOOSE h \in hits : \A g \in hits : h <= g
             IN  <<SubSeq(s, 1, k)>>
                     \o str_split(SubSeq(s, k + Len(sep) + 1, Len(s)), sep)

\* re.split('\s\:\s?', s, maxsplit=1) for an s that holds ' :': s cut at the
\* first whitespace followed by a colon, one whitespace after the colon
\* belonging to the cut.
re_split(s) ==
    LET hits == {k \in 1..(Len(s) - 1) : s[k] \in Whitespace /\ s[k + 1] = ":"}
        k == CHOOSE h \in hits : \A g \in hits : h <= g
        rest == IF k + 2 <= Len(s) /\ s[k + 2] \in Whitespace
                THEN k + 3 ELSE k + 2
    IN  <<SubSeq(s, 1, k - 1), SubSeq(s, rest, Len(s))>>

\* header_regex.split(header, maxsplit=1): the term before ' :' and the
\* classifiers after it.
header_regex_split(s) == re_split(s)

\* trim_indent(lines): the lines without the indentation of the first line
\* that is not blank.
trim_indent(lines) ==
    LET solid == {i \in 1..Len(lines) : ~is_empty(lines[i])}
        n == IF solid = {} THEN 0
             ELSE LeadingWs(lines[CHOOSE i \in solid : \A j \in solid : i <= j])
    IN  [i \in 1..Len(lines) |-> SubSeq(lines[i], n + 1, Len(lines[i]))]

\* Item(term, classifiers, definition)
Item(term, classifiers, definition) ==
    [term |-> term, classifiers |-> classifiers, definition |-> definition]

\* [f(x) for x in xs]
Stripped(xs) == [i \in 1..Len(xs) |-> strip(xs[i])]
Rstripped(xs) == [i \in 1..Len(xs) |-> rstrip(xs[i])]

\* A variant of OrDefinitionItem.parse that keeps [''] as the classifiers
\* of a header without any.
OrDefinitionItem_parse_keeping(lines) ==
    LET hdr == strip(lines[1])
        parts == IF contains(hdr, <<" ", ":">>)
                 THEN header_regex_split(hdr)
                 ELSE <<hdr, << >> >>
        classifiers == Stripped(str_split(parts[2], <<"o", "r">>))
        trimed_lines == IF Len(lines) > 1 THEN trim_indent(Tail(lines))
                        ELSE << << >> >>
    IN  Item(strip(parts[1]), classifiers, Rstripped(trimed_lines))

\* OrDefinitionItem.parse(lines), lines 122-131
OrDefinitionItem_parse(lines) ==
    LET hdr == strip(lines[1])
        parts == IF contains(hdr, <<" ", ":">>)
                 THEN header_regex_split(hdr)
                 ELSE <<hdr, << >> >>
        split == Stripped(str_split(parts[2], <<"o", "r">>))
        classifiers == IF split = << << >> >> THEN << >> ELSE split
        trimed_lines == IF Len(lines) > 1 THEN trim_indent(Tail(lines))
                        ELSE << << >> >>
    IN  Item(strip(parts[1]), classifiers, Rstripped(trimed_lines))

\* BaseDoc.parse_field(lines), lines 478-489
parse_field(lines) ==
    LET hdr == strip(lines[1])
        parts == IF contains(hdr, <<" ", ":">>)
                 THEN re_split(hdr)
                 ELSE <<hdr, << >> >>
    IN  IF Len(lines) > 1
        THEN <<strip(parts[1]), strip(parts[2]), Tail(Rstripped(lines))>>
        ELSE <<strip(parts[1]), strip(parts[2]), << << >> >> >>

\* The blocks given to the item calls: a header built from a term, with or
\* without ' :', and classifiers joined by ' or ', then the description.
ItemTerms ==
    { <<"a">>, <<"*", "a">>, <<"*", "*", "a">>, <<"a", " ", "o", "r">> }

ItemClassifiers ==
    { <<"b">>, <<"c">>, <<"b", "o", "r">>, <<"b", ".", "c">>,
      <<"b", "(", "c", ")">> }

ItemBodies ==
    { << >>,
      << <<" ", " ", "d", " ">> >>,
      << <<" ", "d">>, <<" ", " ", "d">> >> }

RECURSIVE JoinOr(_)
JoinOr(cls) ==
    IF Len(cls) = 1 THEN cls[1]
    ELSE cls[1] \o <<" ", "o", "r", " ">> \o JoinOr(Tail(cls))

ItemHeader(term, colon, cls) ==
    IF ~colon THEN term
    ELSE IF cls = << >> THEN term \o <<" ", ":">>
    ELSE term \o <<" ", ":", " ">> \o JoinOr(cls)

ItemCalls ==
    LET shapes == {x \in ItemTerms \X BOOLEAN
                         \X Lists(ItemClassifiers, MaxClassifiers)
                         \X ItemBodies : x[2] \/ x[3] = << >>}
    IN  {[op |-> "none",
          lines |-> <<ItemHeader(x[1], x[2], x[3])>> \o x[4],
          term |-> x[1], colon |-> x[2], cls |-> x[3]] : x \in shapes}

InitItem ==
    /\ docstring = << >>
    /\ index = 0
    /\ headers = EmptyRegistry
    /\ inputIsList = TRUE
    /\ supplied = << >>
    /\ old = << >>
    /\ oldIndex = 0
    /\ pc = "call_item"
    /\ InitLocals
    /\ call \in ItemCalls
    /\ ef_indent = << >>
    /\ gnb_ret = "returned"

ItemUnchanged ==
    UNCHANGED <<docstring, index, header, refactorLocals, blockLocals, caller,
                fieldLocals, removals, entry, loopGhost, passes>>

\* OrDefinitionItem.is_item(line) on the header line
IsItemCall ==
    /\ pc = "call_item"
    /\ call' = [call EXCEPT !.op = "is_item"]
    /\ result' = is_item(call.lines[1])
    /\ pc' = "returned"
    /\ ItemUnchanged

\* OrDefinitionItem.parse(lines)
OrDefinitionItemParseCall ==
    /\ pc = "call_item"
    /\ call' = [call EXCEPT !.op = "parse"]
    /\ result' = OrDefinitionItem_parse(call.lines)
    /\ pc' = "returned"
    /\ ItemUnchanged

\* BaseDoc.parse_field(lines)
ParseFieldCall ==
    /\ pc = "call_item"
    /\ call' = [call EXCEPT !.op = "parse_field"]
    /\ result' = parse_field(call.lines)
    /\ pc' = "returned"
    /\ ItemUnchanged

NextItem ==
    \/ IsItemCall
    \/ OrDefinitionItemParseCall
    \/ ParseFieldCall

SpecItem == InitItem /\ [][NextItem]_vars

----------------------------------------------------------------------------
(* Claims about item headers.                                              *)

\* The header line the call under way was given.
CalledItemHeader == call.lines[1]

\* C11: OrDefinitionItem.parse returns no Item for a header with three
\* classifier segments (term : c1 or c2 or c3), it fails with MalformedItem;
\* every Item it returns has at most two classifiers.
C11_AtMostTwoClassifiers ==
    pc = "returned" /\ call.op = "parse" =>
        /\ Len(call.cls) <= 2
        /\ Len(result.classifiers) <= 2

\* The text ' :' occurs in the line.
HasSpaceColon(line) ==
    \E k \in 1..(Len(line) - 1) : line[k] = " " /\ line[k + 1] = ":"

\* C12: for a block whose header line holds no ' :', OrDefinitionItem.parse
\* returns the whole stripped header as the term with no classifier (the
\* empty list, not ['']), and BaseDoc.parse_field returns the whole stripped
\* header as the name with the empty string as the type.
C12_HeaderWithoutColon ==
    pc = "returned" /\ ~HasSpaceColon(CalledItemHeader) =>
        /\ call.op = "parse" =>
              /\ result.term = strip(CalledItemHeader)
              /\ result.classifiers = << >>
        /\ call.op = "parse_field" =>
              /\ result[1] = strip(CalledItemHeader)
              /\ result[2] = << >>

\* C12 witness: OrDefinitionItem.parse returned for the header 'a or', which
\* holds the word 'or' and no ' :'.
C12_Witness ==
    /\ pc = "returned"
    /\ call.op = "parse"
    /\ CalledItemHeader = <<"a", " ", "o", "r">>
    /\ result.term = <<"a", " ", "o", "r">>
    /\ result.classifiers = << >>

\* The word 'or' stands on its own in the phrase c.
StandaloneOr(c) ==
    \E k \in 1..(Len(c) - 1) :
        /\ c[k] = "o" /\ c[k + 1] = "r"
        /\ k > 1 => c[k - 1] \notin WordChars
        /\ k + 2 <= Len(c) => c[k + 2] \notin WordChars

\* C13: for a header 'term : C' or 'term : C1 or C2' whose classifier
\* phrases do not hold 'or' as a word of its own (they may hold it inside a
\* word), OrDefinitionItem.parse returns exactly these phrases, stripped, as
\* the classifiers.
C13_ClassifierSplit ==
    /\ pc = "returned"
    /\ call.op = "parse"
    /\ call.colon
    /\ Len(call.cls) \in {1, 2}
    /\ \A i \in 1..Len(call.cls) : ~StandaloneOr(call.cls[i])
    => result.classifiers = Stripped(call.cls)

\* A single word with at most two '*' before it.
IsTermWord(t) ==
    \E n \in 0..2 :
        /\ n < Len(t)
        /\ \A k \in 1..n : t[k] = "*"
        /\ \A k \in (n + 1)..Len(t) : t[k] \in WordChars

\* C16: for a term that is a single word with at most two '*' before it,
\* OrDefinitionItem.is_item accepts 'term', 'term : classifier' and
\* 'term : classifier or classifier', and rejects a header with three
\* classifiers joined by 'or'.
C16_HeaderShapes ==
    pc = "returned" /\ call.op = "is_item" /\ IsTermWord(call.term) =>
        /\ ~call.colon => result = TRUE
        /\ call.colon /\ Len(call.cls) \in {1, 2} => result = TRUE
        /\ Len(call.cls) = 3 => result = FALSE

----------------------------------------------------------------------------
(* read(), remove_lines() and insert_lines(), each called on its own.      *)

MaxBufferLines == 3    \* lines of a buffer given to a primitive
MaxCount == 2          \* the count given to remove_lines()
MaxInserted == 2       \* lines given to insert_lines()

BufferLines == { <<"a">>, <<"b">>, <<"c">> }
InsertedLines == { <<"x">>, <<"y">> }

InitBuffer ==
    /\ docstring \in Lists(BufferLines, MaxBufferLines)
    /\ index \in 0..Len(docstring)
    /\ supplied = docstring
    /\ inputIsList = TRUE
    /\ headers = EmptyRegistry
    /\ pc = "call_primitive"
    /\ old = docstring
    /\ oldIndex = index
    /\ InitLocals
    /\ InitCall

\* A variant of read() that leaves the cursor where it is.
read_staying(doc, i) ==
    IF i < Len(doc)
    THEN [raised |-> FALSE, line |-> doc[i + 1], index |-> i]
    ELSE [raised |-> TRUE, line |-> None, index |-> i]

\* read(), lines 560-563: self._docstring[index] raises IndexError at eol,
\* before index is advanced.
read(doc, i) ==
    IF i < Len(doc)
    THEN [raised |-> FALSE, line |-> doc[i + 1], index |-> i + 1]
    ELSE [raised |-> TRUE, line |-> None, index |-> i]

ReadCall ==
    /\ pc = "call_primitive"
    /\ call' = [op |-> "read", at |-> index, count |-> 0, lines |-> << >>]
    /\ index' = read(docstring, index).index
    /\ result' = read(docstring, index).line
    /\ pc' = IF read(docstring, index).raised THEN "failed" ELSE "returned"
    /\ UNCHANGED <<docstring, header, refactorLocals, blockLocals, caller,
                   fieldLocals, removals, entry, loopGhost, passes>>

\* remove_lines(index, count=1), lines 565-570
RemoveLinesCall ==
    /\ pc = "call_primitive"
    /\ \E at \in 0..(Len(docstring) + 1), count \in 0..MaxCount :
          /\ call' = [op |-> "remove_lines", at |-> at, count |-> count,
                      lines |-> << >>]
          /\ docstring' = remove_lines(docstring, at, count)
          /\ lastRemove' = <<at, count, Len(docstring)>>
    /\ pc' = "returned"
    /\ UNCHANGED <<index, header, refactorLocals, blockLocals, caller, result,
                   fieldLocals, collapsed, entry, loopGhost, passes>>

\* insert_lines(lines, index), lines 517-530
InsertLinesCall ==
    /\ pc = "call_primitive"
    /\ \E at \in 0..(Len(docstring) + 1),
          lines \in Lists(InsertedLines, MaxInserted) :
          /\ call' = [op |-> "insert_lines", at |-> at, count |-> 0,
                      lines |-> lines]
          /\ docstring' = insert_lines(docstring, lines, at)
    /\ pc' = "returned"
    /\ UNCHANGED <<index, header, refactorLocals, blockLocals, caller, result,
                   fieldLocals, removals, entry, loopGhost, passes>>

NextBuffer ==
    \/ ReadCall
    \/ RemoveLinesCall
    \/ InsertLinesCall

SpecBuffer == InitBuffer /\ [][NextBuffer]_vars

\* C14: read() called with index < len(docstring) returns the line at index
\* and leaves index one higher and the buffer as it was; called at eol it
\* fails with the out-of-range error (IndexError) and leaves index and the
\* buffer as they were.
C14_ReadContract ==
    pc \in {"returned", "failed"} /\ call.op = "read" =>
        /\ docstring = old
        /\ oldIndex < Len(old) =>
              /\ pc = "returned"
              /\ result = old[oldIndex + 1]
              /\ index = oldIndex + 1
        /\ oldIndex >= Len(old) =>
              /\ pc = "failed"
              /\ index = oldIndex

\* C14 witness: read() failed at the end of a buffer of two lines.
C14_Witness ==
    /\ call.op = "read"
    /\ pc = "failed"
    /\ Len(old) = 2
    /\ oldIndex = 2
    /\ index = 2
    /\ docstring = old

\* C15: remove_lines(at, count) with at + count <= len(docstring) deletes
\* exactly the lines [at, at + count), and insert_lines(lines, at) with at
\* inside the buffer or at its end puts the lines, in their order, at
\* [at, at + len(lines)); every other line keeps its content and its place
\* among the others, and index is not changed.
C15_RemoveInsert ==
    pc = "returned" =>
        /\ call.op = "remove_lines" /\ call.at + call.count <= Len(old) =>
              /\ index = oldIndex
              /\ Len(docstring) = Len(old) - call.count
              /\ \A j \in 1..Len(docstring) :
                    docstring[j] = IF j <= call.at THEN old[j]
                                   ELSE old[j + call.count]
        /\ call.op = "insert_lines" /\ call.at <= Len(old) =>
              /\ index = oldIndex
              /\ Len(docstring) = Len(old) + Len(call.lines)
              /\ \A j \in 1..Len(docstring) :
                    docstring[j] =
                        IF j <= call.at THEN old[j]
                        ELSE IF j <= call.at + Len(call.lines)
                             THEN call.lines[j - call.at]
                        ELSE old[j - Len(call.lines)]

\* C15 witness: two lines were inserted in the middle of a buffer.
C15_Witness ==
    /\ pc = "returned"
    /\ call.op = "insert_lines"
    /\ call.at = 1
    /\ call.lines = << <<"x">>, <<"y">> >>
    /\ old = << <<"a">>, <<"b">> >>
    /\ docstring = << <<"a">>, <<"x">>, <<"y">>, <<"b">> >>

----------------------------------------------------------------------------
(* Claims about the edits parse() makes to the buffer.                     *)

\* C17: within an iteration of the scan loop the buffer is only changed at
\* or after the cursor the iteration began with, and that cursor never goes
\* back; so the lines the loop has moved past are never inserted into,
\* removed or changed.
C17_ProcessedPrefix ==
    [][/\ iterIndex' >= iterIndex
       /\ docstring' # docstring =>
             /\ iterIndex' = iterIndex
             /\ index >= iterIndex
             /\ Len(docstring') >= iterIndex
             /\ SubSeq(docstring', 1, iterIndex)
                    = SubSeq(docstring, 1, iterIndex)]_vars

\* C17 witness: the rewrite of a header found after the first line has
\* removed lines.
C17_Witness ==
    /\ pc = "rh_removed"
    /\ iterIndex >= 1
    /\ Len(docstring) < iterLen

\* The line holds nothing but whitespace.
IsBlank(line) == \A k \in 1..Len(line) : line[k] \in Whitespace

\* C18: when a header is found at i, the step that follows removes line
\* i + 2 when it exists and is blank, exactly that one line, and nothing
\* otherwise; with the default strategy the rewrite puts two lines in the
\* place of header and underline, so at the end the buffer is shorter than
\* the input by the number of headers found with a blank line after them.
C18_SeparatorCollapse ==
    /\ [][pc = "checked" /\ pc' = "refactor" =>
             docstring' =
                 IF index + 2 < Len(docstring) /\ IsBlank(docstring[index + 3])
                 THEN SubSeq(docstring, 1, index + 2)
                          \o SubSeq(docstring, index + 4, Len(docstring))
                 ELSE docstring]_vars
    /\ [](pc = "done" => Len(docstring) = Len(supplied) - collapsed)

\* C18 witness: a header followed by two blank lines; the first is gone and
\* the second is kept.
C18_Witness ==
    /\ pc = "done"
    /\ supplied = << <<"a">>, <<"-">>, << >>, <<" ">> >>
    /\ collapsed = 1
    /\ Len(docstring) = 3
    /\ docstring[3] = <<" ">>

\* C19: every remove_lines(at, count) call made during parse() addresses
\* lines that exist: at + count <= len(docstring) when it is called.
C19_RemovalInRange ==
    lastRemove # << >> => lastRemove[1] + lastRemove[2] <= lastRemove[3]

----------------------------------------------------------------------------
(* extract_fields(), called on its own with the default field check.       *)

MaxFieldLines == 3     \* lines of a buffer given to extract_fields()

\* is_variable_field(line, indent): a match of
\* indent + r'\*?\*?\w+\s:(\s+|$)' at the start of the line
is_variable_field(line, indent) ==
    LET colon ==
            AfterOne(line,
                AfterOne(line,
                    AfterSome(line,
                        AfterUpTo(line, AfterText(line, {0}, indent),
                                  {"*"}, 2),
                        WordChars),
                    Whitespace),
                {":"})
    IN  \/ AfterSome(line, colon, Whitespace) # {}
        \/ AtEnd(line, colon)

FieldLines ==
    { << >>, <<" ">>, <<"a", " ", ":">>, <<"a", " ", ":", " ", "b">>,
      <<"b">>, <<" ", "c">>, <<" ", "a", " ", ":">> }

FieldIndents == { << >>, <<" ">> }

InitFields ==
    /\ docstring \in Lists(FieldLines, MaxFieldLines)
    /\ index \in 0..Len(docstring)
    /\ ef_indent \in FieldIndents
    /\ supplied = docstring
    /\ inputIsList = TRUE
    /\ headers = EmptyRegistry
    /\ pc = "ef_loop"
    /\ old = docstring
    /\ oldIndex = index
    /\ InitLocals
    /\ call = [op |-> "extract_fields"]
    /\ gnb_ret = "ef_append"

\* lines 374-375: the condition of the while loop
fields_continue(doc, i, indent) ==
    /\ ~eol(doc, i)
    /\ \/ is_variable_field(peek(doc, i, 0), indent)
       \/ is_variable_field(peek(doc, i, 1), indent)

\* lines 374-378: the loop goes on; a blank line at the cursor is removed and
\* get_next_block() is called
EfContinue ==
    /\ pc = "ef_loop"
    /\ fields_continue(docstring, index, ef_indent)
    /\ IF is_empty(peek(docstring, index, 0))
       THEN /\ docstring' = remove_lines(docstring, index, 1)
            /\ lastRemove' = <<index, 1, Len(docstring)>>
       ELSE UNCHANGED <<docstring, lastRemove>>
    /\ pc' = "call_get_next_block"
    /\ UNCHANGED <<index, header, refactorLocals, blockLocals, caller,
                   callLocals, fieldLocals, collapsed, entry, loopGhost, passes>>

\* line 381: parameters.append(self.parse_field(field))
EfAppend ==
    /\ pc = "ef_append"
    /\ parameters' = Append(parameters, parse_field(field))
    /\ pc' = "ef_loop"
    /\ UNCHANGED <<docstring, index, header, refactorLocals, blockLocals,
                   caller, callLocals, ef_indent, gnb_ret, removals, entry,
                   loopGhost, passes>>

\* lines 374 and 385: the loop ends; return parameters
EfReturn ==
    /\ pc = "ef_loop"
    /\ ~fields_continue(docstring, index, ef_indent)
    /\ result' = parameters
    /\ pc' = "returned"
    /\ UNCHANGED <<docstring, index, header, refactorLocals, blockLocals,
                   caller, call, fieldLocals, removals, entry, loopGhost,
                   passes>>

NextFields ==
    \/ EfContinue
    \/ GnbRead
    \/ GnbContinue
    \/ GnbBreak
    \/ GnbRemove
    \/ GnbReset
    \/ EfAppend
    \/ EfReturn

SpecFields == InitFields /\ [][NextFields]_vars

\* C20: extract_fields() calls get_next_block() only with a field start (a
\* line that satisfies the field check at the given indent) at the cursor,
\* so that every block it removes and gives to parse_field starts with such
\* a line and a line at the cursor that is neither blank nor a field start
\* ends the extraction and stays; and it returns with index as on entry.
C20_OnlyFields ==
    /\ pc = "call_get_next_block" =>
          is_variable_field(peek(docstring, index, 0), ef_indent)
    /\ pc = "ef_append" => is_variable_field(field[1], ef_indent)
    /\ pc = "returned" => index = oldIndex

----------------------------------------------------------------------------
(* Claims about the end of a block and the cursor of the scan loop.        *)

\* C21: the block get_next_block() returns never holds two empty lines in
\* sequence, a line being empty when it holds nothing but whitespace.
C21_NoTwoEmptyLines ==
    pc = "returned" =>
        \A k \in 1..(Len(field) - 1) :
            ~(IsBlank(field[k]) /\ IsBlank(field[k + 1]))

\* C22: the cursor at the start of an iteration of the scan loop of parse()
\* is never below the cursor at the start of the iteration before it, also
\* when the rewrite of a section removed and inserted lines in between.
C22_MonotoneCursor ==
    [][pc = "loop" /\ pc' = "checked" /\ iter >= 1 =>
           /\ index >= iterIndex
           /\ iterIndex' >= iterIndex]_vars

\* C22 witness: the second iteration begins two lines further on, after the
\* rewrite of a header whose blank line was removed.
C22_Witness ==
    /\ pc = "checked"
    /\ iter = 2
    /\ iterIndex = 2
    /\ collapsed = 1
    /\ Len(docstring) = Len(supplied) - 1

====
